---- MODULE Spec2Model ----
(***************************************************************************)
(* The verification service of backend/server.js (src/unnamed/part_000):   *)
(* the Verification and User collections, the HTTP handlers that read and  *)
(* write them, and the points (each await of a store call) at which        *)
(* concurrently running handlers interleave. A write to the store may be   *)
(* refused (the handlers' catch blocks); reads are taken to succeed.       *)
(* Specification Spec.                                                     *)
(*                                                                         *)
(* The page script src/tasks.js: the upload widget of the verification     *)
(* modal, the submission and the status poller, with the FileReader loads  *)
(* and the fetches that complete in later turns of the event loop. The     *)
(* service is the script's environment: each fetch resolves with any       *)
(* answer the service can give. Specification ClientSpec.                  *)
(***************************************************************************)
EXTENDS Integers, Sequences, FiniteSets, Bags, TLC

VARIABLES now, verifications, users, inflight, resp, issued, served

\* The page: currentVerificationTask (the global), whether the modal is
\* displayed, the file the input element holds, the previewed file,
\* submitBtn.disabled, the FileReader loads and fetches under way, the
\* number of fetches made, the per-task status element and button.
VARIABLES currentVerificationTask, modalOpen, fileInput, preview,
          submitDisabled, readers, fetches, fetched, indicator, btnDisabled

serverVars == <<now, verifications, users, inflight, resp, issued, served>>

clientVars ==
    <<currentVerificationTask, modalOpen, fileInput, preview, submitDisabled,
      readers, fetches, fetched, indicator, btnDisabled>>

vars == <<serverVars, clientVars>>

----------------------------------------------------------------------------
(* Bounds of the model.                                                    *)

\* Date.now() takes the values 0..MaxTime (milliseconds).
MaxTime == 1
\* Math.random() takes MaxRnd distinct values.
MaxRnd == 2
\* At most MaxRequests requests that write to the store are served.
MaxRequests == 3
\* At most MaxInFlight handlers are suspended at an await at a time.
MaxInFlight == 2
\* The page makes at most MaxFetched fetches.
MaxFetched == 3
\* At most MaxFetches fetches of the page are unanswered at a time.
MaxFetches == 2
\* At most MaxReaders FileReader loads are under way at a time.
MaxReaders == 1

----------------------------------------------------------------------------
(* Inputs.                                                                 *)

UserAddresses == {"0xABC", "0xDEF"}

\* userSchema.tasksCompleted: the paths the schema declares.
SchemaTasks == {"twitter", "facebook", "instagram", "youtube", "telegram"}

\* Property names every object literal {} inherits from Object.prototype.
ObjectPrototypeKeys ==
    {"constructor", "toString", "toLocaleString", "valueOf", "hasOwnProperty",
     "isPrototypeOf", "propertyIsEnumerable", "__proto__"}

\* The (userAddress, task) pairs submitted. req.body.task is any string:
\* one schema task and one custom label that is also an inherited property
\* name. One user submits for both, the other for the schema task.
Submissions ==
    {<<"0xABC", "twitter">>, <<"0xABC", "constructor">>, <<"0xDEF", "twitter">>}

\* verificationSchema.status enum.
StatusEnum == {"pending", "verified", "rejected"}

\* req.body.status of the review endpoint is any string.
ReviewInputs == StatusEnum \cup {"approved"}

ReferralCodes == {"REF1"}

\* limits.fileSize of the multer instance, in bytes.
FileSizeLimit == 5 * 1024 * 1024

NoFile == [present |-> FALSE, mimetype |-> "", extname |-> "", size |-> 0]

\* The uploads tried: none, a small png, a text file, a png one byte over the
\* limit, a png of exactly the limit, a png renamed .txt.
Files ==
    {NoFile,
     [present |-> TRUE, mimetype |-> "image/png", extname |-> ".png", size |-> 1024],
     [present |-> TRUE, mimetype |-> "text/plain", extname |-> ".txt", size |-> 1024],
     [present |-> TRUE, mimetype |-> "image/png", extname |-> ".png", size |-> FileSizeLimit + 1],
     [present |-> TRUE, mimetype |-> "image/gif", extname |-> ".gif", size |-> FileSizeLimit],
     [present |-> TRUE, mimetype |-> "image/png", extname |-> ".txt", size |-> 1024]}

----------------------------------------------------------------------------
(* Values.                                                                 *)

\* 'VER' + Date.now() + random: the pair of the two components (Date.now()
\* has a fixed number of digits, so the concatenation is injective).
VerificationIds == (0..MaxTime) \X (0..(MaxRnd - 1))

NoId == <<-1, -1>>

\* A Date that is not set.
NoDate == -1

DefaultTasksCompleted == [t \in SchemaTasks |-> FALSE]

NoDoc ==
    [verificationId |-> NoId, userAddress |-> "", task |-> "", status |-> "",
     reviewedBy |-> "", reviewNotes |-> "", submittedAt |-> NoDate,
     reviewedAt |-> NoDate]

\* A handler suspended at an await is [kind, pc, doc, modified, idx]: the
\* document it holds (constructed, or loaded and assigned to), the paths of
\* it mongoose tracks as modified, and the position of the stored record it
\* was loaded from. inflight is the bag of the suspended handlers.
Suspended(kind, pc, doc, modified, idx) ==
    [kind |-> kind, pc |-> pc, doc |-> doc, modified |-> modified, idx |-> idx]

NoResp ==
    [op |-> "none", code |-> 0, verificationId |-> NoId, userAddress |-> "",
     task |-> "", status |-> "", idx |-> 0, statuses |-> <<>>, list |-> <<>>]

Response(op, code) == [NoResp EXCEPT !.op = op, !.code = code]

\* One more request that writes is taken up.
Serve ==
    /\ served < MaxRequests
    /\ served' = served + 1

\* A handler reaches its first await.
Suspend(h) ==
    /\ BagCardinality(inflight) < MaxInFlight
    /\ inflight' = inflight (+) SetToBag({h})
    /\ Serve

\* Handler h continues to its next await, as h2.
Resume(h, h2) == inflight' = (inflight (-) SetToBag({h})) (+) SetToBag({h2})

\* Handler h has answered.
Finish(h) == inflight' = inflight (-) SetToBag({h})

Handlers(kind, pc) ==
    {h \in BagToSet(inflight) : h.kind = kind /\ h.pc = pc}

----------------------------------------------------------------------------
(* The page's values.                                                      *)

\* The value null of currentVerificationTask.
NoTask == ""

\* The tasks the page has a `${task}Status` element and a verify button
\* for.
ElementTasks == SchemaTasks

\* The task names the page is used with: two tasks of the page and a
\* custom label the page has no element for.
ClientTasks == {"twitter", "facebook", "custom"}

\* The files chosen or dropped (type is the mimetype): an empty list, a
\* small png, a text file, a png one byte over 5 MiB, a gif of exactly
\* 5 MiB.
ClientFiles == {f \in Files : ~(f.mimetype = "image/png" /\ f.extname = ".txt")}

\* The status element before any update: no status class.
NoIndicator == [status |-> "none", from |-> 0]

\* A fetch that has not resolved: the request sent (task and file of the
\* form data, for a submission) and its number in the order of issue.
Fetch(kind, task, file, seq) ==
    [kind |-> kind, task |-> task, file |-> file, seq |-> seq]

\* The state the script starts in when the page has loaded.
PageLoaded ==
    /\ currentVerificationTask = NoTask
    /\ modalOpen = FALSE
    /\ fileInput = NoFile
    /\ preview = NoFile
    /\ submitDisabled = TRUE
    /\ readers = EmptyBag
    /\ fetches = EmptyBag
    /\ fetched = 0
    /\ indicator = [t \in ElementTasks |-> NoIndicator]
    /\ btnDisabled = [t \in ElementTasks |-> FALSE]

----------------------------------------------------------------------------
Init ==
    /\ PageLoaded
    /\ now = 0
    /\ verifications = <<>>
    /\ users = <<>>
    /\ inflight = EmptyBag
    /\ resp = NoResp
    /\ issued = [id \in VerificationIds |-> 0]
    /\ served = 0

\* The answer of the last step reaches its client. A request is taken up
\* from a state with no answer outstanding.
Deliver ==
    /\ resp # NoResp
    /\ resp' = NoResp
    /\ UNCHANGED <<now, verifications, users, inflight, issued, served>>
    /\ UNCHANGED clientVars

\* Time passes between any two steps, or does not.
Tick ==
    /\ now < MaxTime
    /\ now' = now + 1
    /\ resp' = NoResp
    /\ UNCHANGED <<verifications, users, inflight, issued, served>>
    /\ UNCHANGED clientVars

----------------------------------------------------------------------------
(* POST /api/submit-verification                                           *)

\* /jpeg|jpg|png|gif/.test(s): an unanchored search; of the strings the
\* model uploads these are the ones it finds a match in.
filetypes(s) ==
    s \in {"image/jpeg", "image/jpg", "image/png", "image/gif",
           ".jpeg", ".jpg", ".png", ".gif"}

fileFilter(file) == filetypes(file.mimetype) /\ filetypes(file.extname)

\* multer raises LIMIT_FILE_SIZE once the stream passes limits.fileSize.
LimitFileSize(file) == file.size > FileSizeLimit

\* An error multer hands to next(err): the application registers no error
\* middleware, so Express's default handler answers with err.status, which
\* neither Error nor MulterError carries, hence 500.
MulterErrorStatus == 500

\* `if (!req.file)` of the handler.
NoFileStatus == 400

\* Status of the handler's catch block.
CatchStatus == 500

\* The random components of the ids made in this millisecond that are
\* stored or about to be.
Drawn ==
    {rnd \in 0..(MaxRnd - 1) :
        \/ \E i \in 1..Len(verifications) :
             verifications[i].verificationId = <<now, rnd>>
        \/ \E h \in Handlers("submit", "save") :
             h.doc.verificationId = <<now, rnd>>}

\* Math.random(): a value already drawn in this millisecond, or a new one.
\* (Values are interchangeable: a new one is the least not drawn.)
RandomDraws ==
    Drawn \cup {rnd \in 0..(MaxRnd - 1) :
                  /\ rnd \notin Drawn
                  /\ \A q \in 0..(rnd - 1) : q \in Drawn}

NewVerification(verificationId, userAddress, task, submittedAt) ==
    [verificationId |-> verificationId, userAddress |-> userAddress,
     task |-> task, status |-> "pending", reviewedBy |-> "",
     reviewNotes |-> "", submittedAt |-> submittedAt, reviewedAt |-> NoDate]

\* res.json({ success: true, verificationId, ... }), with the request it
\* answers.
SubmitResponse(code, userAddress, task, verificationId) ==
    [Response("Submit", code) EXCEPT !.userAddress = userAddress,
                                     !.task = task,
                                     !.verificationId = verificationId]

\* upload.single('screenshot') and the handler up to its first await: the
\* id and the document (submittedAt defaults to Date.now() on construction)
\* are made in the same tick, then verification.save() is awaited.
SubmitRequest(userAddress, task, file) ==
    /\ resp = NoResp
    /\ \/ /\ file.present
          /\ ~fileFilter(file)
          /\ resp' = Response("Submit", MulterErrorStatus)
          /\ UNCHANGED <<inflight, served>>
       \/ /\ file.present
          /\ fileFilter(file)
          /\ LimitFileSize(file)
          /\ resp' = Response("Submit", MulterErrorStatus)
          /\ UNCHANGED <<inflight, served>>
       \/ /\ ~file.present
          /\ resp' = Response("Submit", NoFileStatus)
          /\ UNCHANGED <<inflight, served>>
       \/ /\ file.present
          /\ fileFilter(file)
          /\ ~LimitFileSize(file)
          /\ \E rnd \in RandomDraws :
               LET d == NewVerification(<<now, rnd>>, userAddress, task, now)
               IN Suspend(Suspended("submit", "save", d, {}, 0))
          /\ resp' = NoResp
    /\ UNCHANGED <<now, verifications, users, issued>>
    /\ UNCHANGED clientVars

\* The collection without the unique index.
NoUniqueIndex(verificationId) == FALSE

\* verificationId: { unique: true }: the insert is refused when a stored
\* record has the id.
UniqueIndexViolated(verificationId) ==
    \E i \in 1..Len(verifications) :
        verifications[i].verificationId = verificationId

\* await verification.save() completes: the insert, or an error into catch.
SubmitSave(h) ==
    /\ h \in Handlers("submit", "save")
    /\ LET d == h.doc IN
       \/ /\ ~UniqueIndexViolated(d.verificationId)
          /\ verifications' = Append(verifications, d)
          /\ Resume(h, [h EXCEPT !.pc = "upsert"])
          /\ resp' = NoResp
       \/ /\ UniqueIndexViolated(d.verificationId)
          /\ resp' = Response("Submit", CatchStatus)
          /\ Finish(h)
          /\ UNCHANGED verifications
       \/ \* the store refuses the write
          /\ resp' = Response("Submit", CatchStatus)
          /\ Finish(h)
          /\ UNCHANGED verifications
    /\ UNCHANGED <<now, users, issued, served>>
    /\ UNCHANGED clientVars

\* A User document as mongoose hands it out: the schema's defaults for
\* every path the stored document lacks. (registrationDate and dailyClaims
\* are written by no handler after creation and are left out.)
NewUser(userAddress, referralCode, isActive) ==
    [userAddress |-> userAddress, referralCode |-> referralCode,
     isActive |-> isActive, tasksCompleted |-> DefaultTasksCompleted]

\* { $set: { [`tasksCompleted.${task}`]: value } } under the schema's strict
\* mode: a path the schema does not declare is dropped from the update.
SetTaskCompleted(user, task, value) ==
    IF task \in SchemaTasks
    THEN [user EXCEPT !.tasksCompleted[task] = value]
    ELSE user

\* The upsert writing true where the handler writes false.
SubmitUserUpdateCompletes(userAddress, task) ==
    IF userAddress \in DOMAIN users
    THEN [users EXCEPT ![userAddress] = SetTaskCompleted(@, task, TRUE)]
    ELSE (userAddress :> SetTaskCompleted(NewUser(userAddress, "", FALSE), task, TRUE))
         @@ users

\* User.findOneAndUpdate({userAddress}, {$set: ...: false}, {upsert: true}).
SubmitUserUpdate(userAddress, task) ==
    IF userAddress \in DOMAIN users
    THEN [users EXCEPT ![userAddress] = SetTaskCompleted(@, task, FALSE)]
    ELSE (userAddress :> SetTaskCompleted(NewUser(userAddress, "", FALSE), task, FALSE))
         @@ users

\* await User.findOneAndUpdate(...) completes and the response is sent.
SubmitUpsert(h) ==
    /\ h \in Handlers("submit", "upsert")
    /\ Finish(h)
    /\ LET d == h.doc IN
       \/ /\ users' = SubmitUserUpdate(d.userAddress, d.task)
          /\ resp' = SubmitResponse(200, d.userAddress, d.task, d.verificationId)
          /\ issued' = [issued EXCEPT ![d.verificationId] = @ + 1]
       \/ \* the store refuses the write
          /\ resp' = Response("Submit", CatchStatus)
          /\ UNCHANGED <<users, issued>>
    /\ UNCHANGED <<now, verifications, served>>
    /\ UNCHANGED clientVars

----------------------------------------------------------------------------
(* POST /api/admin/update-verification                                     *)

\* A findOne whose filter is lost: the first record of the collection.
FindOneUnfiltered(verificationId) == IF Len(verifications) > 0 THEN 1 ELSE 0

\* Verification.findOne({ verificationId }): the position of the record, 0
\* for null.
FindOne(verificationId) ==
    IF \E i \in 1..Len(verifications) :
           verifications[i].verificationId = verificationId
    THEN CHOOSE i \in 1..Len(verifications) :
           /\ verifications[i].verificationId = verificationId
           /\ \A j \in 1..(i - 1) :
                verifications[j].verificationId # verificationId
    ELSE 0

\* Status of `if (!verification)`.
NotFoundStatus == 404

\* The four assignments of the handler to the loaded document.
ReviewAssign(doc, status, reviewNotes, reviewedBy, reviewedAt) ==
    [doc EXCEPT !.status = status, !.reviewNotes = reviewNotes,
                !.reviewedBy = reviewedBy, !.reviewedAt = reviewedAt]

ReviewFields == {"status", "reviewNotes", "reviewedBy", "reviewedAt"}

\* An assignment marks a path modified when the value differs from the one
\* loaded.
Modified(loaded, doc) == {f \in ReviewFields : doc[f] # loaded[f]}

\* document.save() of a loaded document: mongoose writes ($set) the paths
\* it tracks as modified, and no other path.
SaveModified(stored, doc, modified) ==
    [f \in DOMAIN stored |-> IF f \in modified THEN doc[f] ELSE stored[f]]

\* A schema whose status path declares no enum.
NoValidation(doc, modified) == FALSE

\* save() validates the modified paths first: status against the enum.
ValidationFails(doc, modified) ==
    "status" \in modified /\ doc.status \notin StatusEnum

\* res.json({ success: true, ... }), with the request it answers: the
\* document reviewed (at position idx of the store) and the status asked.
ReviewResponse(code, doc, idx) ==
    [Response("Review", code) EXCEPT !.verificationId = doc.verificationId,
                                     !.userAddress = doc.userAddress,
                                     !.task = doc.task,
                                     !.status = doc.status,
                                     !.idx = idx]

\* The handler up to `await verification.save()`: findOne completes, the
\* not-found check, the assignments (reviewedAt = new Date()).
ReviewRequest(verificationId, status, reviewNotes, reviewedBy) ==
    /\ resp = NoResp
    /\ LET i == FindOne(verificationId) IN
       \/ /\ i = 0
          /\ resp' = Response("Review", NotFoundStatus)
          /\ UNCHANGED <<inflight, served>>
       \/ /\ i # 0
          /\ LET loaded == verifications[i]
                 doc == ReviewAssign(loaded, status, reviewNotes, reviewedBy, now)
                 modified == Modified(loaded, doc)
             IN IF ValidationFails(doc, modified)
                THEN /\ resp' = Response("Review", CatchStatus)
                     /\ UNCHANGED <<inflight, served>>
                ELSE /\ Suspend(Suspended("review", "save", doc, modified, i))
                     /\ resp' = NoResp
    /\ UNCHANGED <<now, verifications, users, issued>>
    /\ UNCHANGED clientVars

\* The User update run for every review outcome.
UpdatesUserTasksOnAnyOutcome(status) == status # "pending"

\* `if (status === 'verified')`.
UpdatesUserTasks(status) == status = "verified"

\* await verification.save() completes; a status other than verified is
\* answered at once.
ReviewSave(h) ==
    /\ h \in Handlers("review", "save")
    /\ \/ /\ verifications' =
                [verifications EXCEPT ![h.idx] = SaveModified(@, h.doc, h.modified)]
          /\ IF UpdatesUserTasks(h.doc.status)
             THEN /\ Resume(h, [h EXCEPT !.pc = "user"])
                  /\ resp' = NoResp
             ELSE /\ Finish(h)
                  /\ resp' = ReviewResponse(200, h.doc, h.idx)
       \/ \* the store refuses the write
          /\ resp' = Response("Review", CatchStatus)
          /\ Finish(h)
          /\ UNCHANGED verifications
    /\ UNCHANGED <<now, users, issued, served>>
    /\ UNCHANGED clientVars

\* User.findOneAndUpdate({userAddress}, {$set: ...: true}): no upsert, so no
\* matching User means no write.
ReviewUserUpdate(userAddress, task) ==
    IF userAddress \in DOMAIN users
    THEN [users EXCEPT ![userAddress] = SetTaskCompleted(@, task, TRUE)]
    ELSE users

\* await User.findOneAndUpdate(...) completes and the response is sent.
ReviewUser(h) ==
    /\ h \in Handlers("review", "user")
    /\ Finish(h)
    /\ \/ /\ users' = ReviewUserUpdate(h.doc.userAddress, h.doc.task)
          /\ resp' = ReviewResponse(200, h.doc, h.idx)
       \/ \* the store refuses the write
          /\ resp' = Response("Review", CatchStatus)
          /\ UNCHANGED users
    /\ UNCHANGED <<now, verifications, issued, served>>
    /\ UNCHANGED clientVars

----------------------------------------------------------------------------
(* POST /api/track-registration                                            *)

\* new User({userAddress, referralCode, isActive: true}).save(): the insert
\* is refused when a User with the address exists (userAddress is unique).
TrackRegistration(userAddress, referralCode) ==
    /\ resp = NoResp
    /\ \/ /\ userAddress \notin DOMAIN users
          /\ Serve
          /\ users' = (userAddress :> NewUser(userAddress, referralCode, TRUE)) @@ users
          /\ resp' = [Response("TrackRegistration", 200) EXCEPT
                         !.userAddress = userAddress]
       \/ /\ userAddress \in DOMAIN users
          /\ resp' = Response("TrackRegistration", CatchStatus)
          /\ UNCHANGED <<users, served>>
       \/ \* the store refuses the write
          /\ resp' = Response("TrackRegistration", CatchStatus)
          /\ UNCHANGED <<users, served>>
    /\ UNCHANGED <<now, verifications, inflight, issued>>
    /\ UNCHANGED clientVars

----------------------------------------------------------------------------
(* The two queries.                                                        *)

\* The orders in which a find() may hand out the records at positions S.
Orderings(S) ==
    {f \in [1..Cardinality(S) -> S] :
        \A i, j \in 1..Cardinality(S) : i # j => f[i] # f[j]}

\* .sort({ submittedAt: -1 }): the store fixes no order among records
\* with equal keys.
SortDescending(S) ==
    {f \in Orderings(S) :
        \A i, j \in 1..Cardinality(S) :
            i < j => verifications[f[i]].submittedAt >= verifications[f[j]].submittedAt}

\* The pending query sorted newest first.
SortNewestFirst(S) == SortDescending(S)

\* .sort({ submittedAt: 1 }).
SortAscending(S) ==
    {f \in Orderings(S) :
        \A i, j \in 1..Cardinality(S) :
            i < j => verifications[f[i]].submittedAt <= verifications[f[j]].submittedAt}

\* Verification.find({ userAddress }).
FindByUser(userAddress) ==
    {i \in 1..Len(verifications) : verifications[i].userAddress = userAddress}

\* Verification.find({ status: 'pending' }).
FindPending ==
    {i \in 1..Len(verifications) : verifications[i].status = "pending"}

\* statusMap[task] read as a condition: statusMap is an object literal, so
\* a name Object.prototype defines is found although it was never stored.
Truthy(statusMap, task) ==
    task \in DOMAIN statusMap \/ task \in ObjectPrototypeKeys

\* The comparison turned round: the oldest record of a task is kept.
ReplacesByOlder(statusMap, v) ==
    \/ ~Truthy(statusMap, v.task)
    \/ /\ v.task \in DOMAIN statusMap
       /\ v.submittedAt < verifications[statusMap[v.task]].submittedAt

\* `!statusMap[v.task] || v.submittedAt > statusMap[v.task].submittedAt`:
\* an inherited value has no submittedAt and a Date is not > undefined.
Replaces(statusMap, v) ==
    \/ ~Truthy(statusMap, v.task)
    \/ /\ v.task \in DOMAIN statusMap
       /\ v.submittedAt > verifications[statusMap[v.task]].submittedAt

\* verifications.forEach(...) over the first n records of the sorted find:
\* task -> position of the record kept.
RECURSIVE StatusMap(_, _)
StatusMap(sorted, n) ==
    IF n = 0
    THEN <<>>
    ELSE LET statusMap == StatusMap(sorted, n - 1)
             v == verifications[sorted[n]]
         IN IF Replaces(statusMap, v)
            THEN (v.task :> sorted[n]) @@ statusMap
            ELSE statusMap

\* The response body: result[task] = verification.status.
StatusResult(statusMap) ==
    [task \in DOMAIN statusMap |-> verifications[statusMap[task]].status]

\* Every body GET /api/verification-status/:userAddress may answer with.
GetStatusResults(userAddress) ==
    {StatusResult(StatusMap(sorted, Cardinality(FindByUser(userAddress)))) :
        sorted \in SortDescending(FindByUser(userAddress))}

\* GET /api/verification-status/:userAddress
GetStatus(userAddress) ==
    /\ resp = NoResp
    /\ \E result \in GetStatusResults(userAddress) :
         resp' = [Response("GetStatus", 200) EXCEPT
                     !.userAddress = userAddress, !.statuses = result]
    /\ UNCHANGED <<now, verifications, users, inflight, issued, served>>
    /\ UNCHANGED clientVars

\* Every body GET /api/admin/pending-verifications may answer with.
ListPendingResults ==
    {[k \in 1..Cardinality(FindPending) |-> verifications[sorted[k]]] :
        sorted \in SortAscending(FindPending)}

\* GET /api/admin/pending-verifications
ListPending ==
    /\ resp = NoResp
    /\ \E result \in ListPendingResults :
         resp' = [Response("ListPending", 200) EXCEPT !.list = result]
    /\ UNCHANGED <<now, verifications, users, inflight, issued, served>>
    /\ UNCHANGED clientVars

----------------------------------------------------------------------------
Reviewers == {"admin1"}

ReviewNotes == {"looks good"}

Next ==
    \/ Deliver
    \/ Tick
    \/ \E submission \in Submissions, file \in Files :
         SubmitRequest(submission[1], submission[2], file)
    \/ \E h \in BagToSet(inflight) : SubmitSave(h)
    \/ \E h \in BagToSet(inflight) : SubmitUpsert(h)
    \/ \E verificationId \in VerificationIds, status \in ReviewInputs,
          reviewNotes \in ReviewNotes, reviewedBy \in Reviewers :
         ReviewRequest(verificationId, status, reviewNotes, reviewedBy)
    \/ \E h \in BagToSet(inflight) : ReviewSave(h)
    \/ \E h \in BagToSet(inflight) : ReviewUser(h)
    \/ \E userAddress \in UserAddresses, referralCode \in ReferralCodes :
         TrackRegistration(userAddress, referralCode)
    \/ \E userAddress \in UserAddresses : GetStatus(userAddress)
    \/ ListPending

Spec == Init /\ [][Next]_vars

----------------------------------------------------------------------------
(* src/tasks.js: the upload widget.                                        *)

\* resetUploadArea(): the preview is hidden, the submit button disabled and
\* the file input emptied.
resetUploadArea ==
    /\ preview' = NoFile
    /\ submitDisabled' = TRUE
    /\ fileInput' = NoFile

\* openVerificationModal(taskName)
openVerificationModal(taskName) ==
    /\ currentVerificationTask' = taskName
    /\ modalOpen' = TRUE
    /\ resetUploadArea
    /\ UNCHANGED <<readers, fetches, fetched, indicator, btnDisabled>>
    /\ UNCHANGED serverVars

\* closeModal(), as the modal's close control calls it.
closeModal ==
    /\ modalOpen
    /\ modalOpen' = FALSE
    /\ currentVerificationTask' = NoTask
    /\ resetUploadArea
    /\ UNCHANGED <<readers, fetches, fetched, indicator, btnDisabled>>
    /\ UNCHANGED serverVars

\* removeImage()
removeImage ==
    /\ modalOpen
    /\ resetUploadArea
    /\ UNCHANGED <<currentVerificationTask, modalOpen, readers, fetches,
                   fetched, indicator, btnDisabled>>
    /\ UNCHANGED serverVars

\* file.type.match('image.*'): an unanchored search for "image".
TypeIsImage(file) == file.mimetype \in {"image/png", "image/gif", "image/jpeg"}

\* `file.size > 5 * 1024 * 1024`
TooLarge(file) == file.size > 5 * 1024 * 1024

\* handleFiles returns before it reads the file.
Rejects(file) == ~TypeIsImage(file) \/ TooLarge(file)

\* handleFiles(files), files holding file or nothing: an empty list and a
\* rejected file return at once; otherwise reader.readAsDataURL(file) starts
\* a load whose onload runs in a later turn.
handleFiles(file) ==
    IF ~file.present \/ Rejects(file)
    THEN UNCHANGED readers
    ELSE /\ BagCardinality(readers) < MaxReaders
         /\ readers' = readers (+) SetToBag({file})

\* The drop listener: handleFiles(e.dataTransfer.files). The file input is
\* not assigned.
handleDrop(file) ==
    /\ modalOpen
    /\ handleFiles(file)
    /\ UNCHANGED <<currentVerificationTask, modalOpen, fileInput, preview,
                   submitDisabled, fetches, fetched, indicator, btnDisabled>>
    /\ UNCHANGED serverVars

\* The change listener of the file input: the picker has put file into the
\* input, handleFiles(this.files).
FileInputChange(file) ==
    /\ modalOpen
    /\ file.present
    /\ fileInput' = file
    /\ handleFiles(file)
    /\ UNCHANGED <<currentVerificationTask, modalOpen, preview,
                   submitDisabled, fetches, fetched, indicator, btnDisabled>>
    /\ UNCHANGED serverVars

\* reader.onload of the load of file: the preview is shown and the submit
\* button enabled.
ReaderOnload(file) ==
    /\ BagIn(file, readers)
    /\ readers' = readers (-) SetToBag({file})
    /\ preview' = file
    /\ submitDisabled' = FALSE
    /\ UNCHANGED <<currentVerificationTask, modalOpen, fileInput, fetches,
                   fetched, indicator, btnDisabled>>
    /\ UNCHANGED serverVars

----------------------------------------------------------------------------
(* src/tasks.js: submission and status.                                    *)

\* The button enabled again by a status other than verified.
ButtonFollowsStatus(disabled, status) == status = "verified"

\* `if (status === 'verified')` btn.disabled = true; no other status
\* touches the button.
ButtonDisabled(disabled, status) == disabled \/ status = "verified"

\* updateTaskStatus(task, status) for each entry of statuses (task ->
\* status), on behalf of the fetch numbered seq: a task with no status
\* element is skipped.
updateTaskStatus(statuses, seq) ==
    /\ indicator' =
         [t \in ElementTasks |->
            IF t \in DOMAIN statuses
            THEN [status |-> statuses[t], from |-> seq]
            ELSE indicator[t]]
    /\ btnDisabled' =
         [t \in ElementTasks |->
            IF t \in DOMAIN statuses
            THEN ButtonDisabled(btnDisabled[t], statuses[t])
            ELSE btnDisabled[t]]

\* One more fetch is sent.
Send(f) ==
    /\ fetched < MaxFetched
    /\ BagCardinality(fetches) < MaxFetches
    /\ fetched' = fetched + 1
    /\ fetches' = fetches (+) SetToBag({f})

\* submitVerification() up to `await fetch(...)`, run by a click on the
\* enabled submit button: the two early returns, then the form data with
\* the input's file and the current task is sent.
submitVerification ==
    /\ modalOpen
    /\ ~submitDisabled
    /\ IF currentVerificationTask = NoTask \/ ~fileInput.present
       THEN UNCHANGED <<fetches, fetched>>
       ELSE Send(Fetch("submit", currentVerificationTask, fileInput, fetched + 1))
    /\ UNCHANGED <<currentVerificationTask, modalOpen, fileInput, preview,
                   submitDisabled, readers, indicator, btnDisabled>>
    /\ UNCHANGED serverVars

\* submitVerification() after its awaits: result.success, and then
\* updateTaskStatus(currentVerificationTask, 'pending') and closeModal();
\* or the catch block (an error body, a body that is not JSON, a failed
\* request), which changes nothing on the page.
SubmitResolved(f, success) ==
    /\ BagIn(f, fetches)
    /\ f.kind = "submit"
    /\ fetches' = fetches (-) SetToBag({f})
    /\ IF success
       THEN /\ updateTaskStatus(
                  IF currentVerificationTask = NoTask
                  THEN <<>>
                  ELSE (currentVerificationTask :> "pending"), f.seq)
            /\ modalOpen' = FALSE
            /\ currentVerificationTask' = NoTask
            /\ resetUploadArea
       ELSE UNCHANGED <<currentVerificationTask, modalOpen, fileInput,
                        preview, submitDisabled, indicator, btnDisabled>>
    /\ UNCHANGED <<readers, fetched>>
    /\ UNCHANGED serverVars

\* checkVerificationStatus() up to `await fetch(...)`, run by the timer or
\* the walletConnected event; userAddress is the page's global.
checkVerificationStatus(userAddress) ==
    /\ IF userAddress = ""
       THEN UNCHANGED <<fetches, fetched>>
       ELSE Send(Fetch("poll", NoTask, NoFile, fetched + 1))
    /\ UNCHANGED <<currentVerificationTask, modalOpen, fileInput, preview,
                   submitDisabled, readers, indicator, btnDisabled>>
    /\ UNCHANGED serverVars

\* The tasks the user has Verifications for: one the page has an element
\* for and a custom label.
PollTasks == {"twitter", "custom"}

\* The bodies GET /api/verification-status/:userAddress answers with: a
\* status for each task of some set of tasks.
StatusBodies ==
    UNION {[tasks -> StatusEnum] : tasks \in SUBSET PollTasks}

\* checkVerificationStatus() after its awaits: updateTaskStatus for every
\* entry of the body.
PollResolved(f, statuses) ==
    /\ BagIn(f, fetches)
    /\ f.kind = "poll"
    /\ fetches' = fetches (-) SetToBag({f})
    /\ updateTaskStatus(statuses, f.seq)
    /\ UNCHANGED <<currentVerificationTask, modalOpen, fileInput, preview,
                   submitDisabled, readers, fetched>>
    /\ UNCHANGED serverVars

\* checkVerificationStatus()'s catch block: the error is logged.
PollFailed(f) ==
    /\ BagIn(f, fetches)
    /\ f.kind = "poll"
    /\ fetches' = fetches (-) SetToBag({f})
    /\ UNCHANGED <<currentVerificationTask, modalOpen, fileInput, preview,
                   submitDisabled, readers, fetched, indicator, btnDisabled>>
    /\ UNCHANGED serverVars

ClientNext ==
    \/ \E taskName \in ClientTasks : openVerificationModal(taskName)
    \/ closeModal
    \/ removeImage
    \/ \E file \in ClientFiles : handleDrop(file)
    \/ \E file \in ClientFiles : FileInputChange(file)
    \/ \E file \in BagToSet(readers) : ReaderOnload(file)
    \/ submitVerification
    \/ \E f \in BagToSet(fetches), success \in BOOLEAN : SubmitResolved(f, success)
    \/ \E userAddress \in {"", "0xABC"} : checkVerificationStatus(userAddress)
    \/ \E f \in BagToSet(fetches), statuses \in StatusBodies : PollResolved(f, statuses)
    \/ \E f \in BagToSet(fetches) : PollFailed(f)

ClientSpec == Init /\ [][ClientNext]_vars

----------------------------------------------------------------------------
(* Properties.                                                             *)

\* The tasks for which userAddress has at least one stored Verification.
TasksSubmitted(userAddress) ==
    {verifications[i].task : i \in FindByUser(userAddress)}

\* The stored Verifications of userAddress for task.
FindByUserTask(userAddress, task) ==
    {i \in FindByUser(userAddress) : verifications[i].task = task}

\* The record at position i was submitted after every other record of its
\* user and task.
StrictlyLatest(i) ==
    \A j \in FindByUserTask(verifications[i].userAddress, verifications[i].task) :
        j # i => verifications[j].submittedAt < verifications[i].submittedAt

\* A record of the same user and task was submitted after the one at
\* position i.
Superseded(i) ==
    \E j \in FindByUserTask(verifications[i].userAddress, verifications[i].task) :
        verifications[j].submittedAt > verifications[i].submittedAt

\* C1: when Review(id, verified) answers success, the User of the reviewed
\* Verification exists and has tasksCompleted[task] = true. Stated for the
\* tasks the User schema declares.
C1_ReviewVerifiedCompletesTask ==
    (/\ resp.op = "Review"
     /\ resp.code = 200
     /\ resp.status = "verified"
     /\ resp.task \in SchemaTasks)
    => /\ resp.userAddress \in DOMAIN users
       /\ users[resp.userAddress].tasksCompleted[resp.task] = TRUE

\* C3: a successful Submit changes tasksCompleted of no existing User: it
\* sets the entry to false only when the entry is absent.
C3_SubmitKeepsTasksCompleted ==
    [][(resp'.op = "Submit" /\ resp'.code = 200)
       => \A u \in DOMAIN users :
            users'[u].tasksCompleted = users[u].tasksCompleted]_vars

\* C4: when Submit answers success, every answer GetStatus can give for the
\* user maps the submitted task to pending. Stated for the tasks of the
\* schema and for a submitted record no Review has touched yet.
C4_SubmitThenPending ==
    (/\ resp.op = "Submit"
     /\ resp.code = 200
     /\ resp.task \in SchemaTasks
     /\ verifications[FindOne(resp.verificationId)].status = "pending")
    => \A result \in GetStatusResults(resp.userAddress) :
         /\ resp.task \in DOMAIN result
         /\ result[resp.task] = "pending"

\* C5: the answer of GetStatus(userAddress) lists exactly the tasks the user
\* has a Verification for, each with the status of a Verification of the
\* greatest submittedAt for the task, and GetStatus changes no record.
C5_GetStatusLatestPerTask ==
    /\ [](resp.op = "GetStatus" =>
            /\ DOMAIN resp.statuses = TasksSubmitted(resp.userAddress)
            /\ \A task \in DOMAIN resp.statuses :
                 \E i \in FindByUserTask(resp.userAddress, task) :
                    /\ verifications[i].status = resp.statuses[task]
                    /\ \A j \in FindByUserTask(resp.userAddress, task) :
                         verifications[j].submittedAt <= verifications[i].submittedAt)
    /\ [][resp'.op = "GetStatus" => UNCHANGED <<verifications, users>>]_vars

\* The content types the service is specified to accept.
SpecifiedImageTypes == {"image/jpeg", "image/png", "image/gif"}

\* C7: a Submit with no file, a file of another type or a file over 5 MiB
\* is answered 400 and changes no Verification and no User.
C7_InvalidUploadIs400 ==
    [][\A submission \in Submissions, file \in Files :
         (/\ SubmitRequest(submission[1], submission[2], file)
          /\ \/ ~file.present
             \/ file.mimetype \notin SpecifiedImageTypes
             \/ file.size > 5 * 1024 * 1024)
         => /\ resp'.op = "Submit"
            /\ resp'.code = 400
            /\ UNCHANGED <<verifications, users>>]_vars

\* C2 as claimed, in the case it names: Review(id, verified) succeeded on a
\* Verification that is not the user's most recent one for the task, and
\* every answer of GetStatus maps the task to verified.
C2_ReviewOfOlderThenVerified ==
    (/\ resp.op = "Review"
     /\ resp.code = 200
     /\ resp.status = "verified"
     /\ resp.task \in SchemaTasks
     /\ Superseded(resp.idx))
    => \A result \in GetStatusResults(resp.userAddress) :
         /\ resp.task \in DOMAIN result
         /\ result[resp.task] = "verified"

\* C2 as amended: when Review(id, verified) answers success on the
\* Verification submitted after every other one of its user and task, and
\* the stored status is verified (no concurrent Review has overwritten it),
\* every answer of GetStatus lists the task unless its label is a name
\* inherited from Object.prototype, and maps it to no status but verified.
C2_ReviewOfLatestThenVerified ==
    (/\ resp.op = "Review"
     /\ resp.code = 200
     /\ resp.status = "verified"
     /\ StrictlyLatest(resp.idx)
     /\ verifications[resp.idx].status = "verified")
    => \A result \in GetStatusResults(resp.userAddress) :
         /\ resp.task \notin ObjectPrototypeKeys => resp.task \in DOMAIN result
         /\ resp.task \in DOMAIN result => result[resp.task] = "verified"

\* A Review of the latest of two records of a user and task has answered.
C2_Witness ==
    /\ resp.op = "Review"
    /\ resp.code = 200
    /\ resp.status = "verified"
    /\ StrictlyLatest(resp.idx)
    /\ verifications[resp.idx].status = "verified"
    /\ \E j \in FindByUserTask(resp.userAddress, resp.task) :
         j # resp.idx /\ verifications[j].status # "verified"

\* C6: no two stored Verifications share a verificationId and no
\* verificationId is returned by two successful Submits.
C6_VerificationIdsUnique ==
    /\ \A i, j \in 1..Len(verifications) :
         i # j => verifications[i].verificationId # verifications[j].verificationId
    /\ \A id \in VerificationIds : issued[id] <= 1

\* Two Submits in flight together drew the same timestamp and random
\* component; one is stored and the other is about to be saved.
C6_Witness ==
    \E h1 \in Handlers("submit", "save"), h2 \in Handlers("submit", "upsert") :
        h1.doc.verificationId = h2.doc.verificationId

\* C8: a Review whose verificationId matches no stored Verification is
\* answered 404 and changes no Verification and no User.
C8_UnknownIdIs404 ==
    [][\A verificationId \in VerificationIds :
         (\A i \in 1..Len(verifications) :
             verifications[i].verificationId # verificationId)
         => \A status \in ReviewInputs, reviewNotes \in ReviewNotes,
               reviewedBy \in Reviewers :
              ReviewRequest(verificationId, status, reviewNotes, reviewedBy)
              => /\ resp'.op = "Review"
                 /\ resp'.code = 404
                 /\ UNCHANGED <<verifications, users, inflight>>]_vars

\* A Review was answered 404 while Verifications and Users are stored.
C8_Witness ==
    /\ resp.op = "Review"
    /\ resp.code = 404
    /\ Len(verifications) > 0
    /\ DOMAIN users # {}

\* C9: the answer of ListPending holds every pending Verification once, no
\* other record, in ascending submittedAt order.
C9_ListPendingSorted ==
    resp.op = "ListPending" =>
        /\ \A k \in 1..Len(resp.list) : resp.list[k].status = "pending"
        /\ \A i \in 1..Len(verifications) :
             verifications[i].status = "pending"
             => \E k \in 1..Len(resp.list) : resp.list[k] = verifications[i]
        /\ Len(resp.list) =
             Cardinality({i \in 1..Len(verifications) :
                            verifications[i].status = "pending"})
        /\ \A k \in 1..(Len(resp.list) - 1) :
             resp.list[k].submittedAt <= resp.list[k + 1].submittedAt

\* ListPending answered with the pending record while an older record that
\* was reviewed is stored too.
C9_Witness ==
    /\ resp.op = "ListPending"
    /\ Len(resp.list) = 1
    /\ \E i \in 1..Len(verifications) :
         /\ verifications[i].status \in {"verified", "rejected"}
         /\ verifications[i].submittedAt < resp.list[1].submittedAt

\* C10: no step of a Review handler whose status is rejected changes a User
\* record.
C10_RejectedKeepsUsers ==
    [][\A h \in BagToSet(inflight) :
         (/\ h.kind = "review"
          /\ h.doc.status = "rejected"
          /\ ReviewSave(h) \/ ReviewUser(h))
         => UNCHANGED users]_vars

\* A rejecting Review has answered for a user whose task is completed.
C10_Witness ==
    /\ resp.op = "Review"
    /\ resp.code = 200
    /\ resp.status = "rejected"
    /\ resp.userAddress \in DOMAIN users
    /\ resp.task \in SchemaTasks
    /\ users[resp.userAddress].tasksCompleted[resp.task] = TRUE

\* C11: every stored Verification has reviewedAt null exactly when its
\* status is pending, whatever status the Review endpoint accepted.
C11_ReviewedAtIffReviewed ==
    \A i \in 1..Len(verifications) :
        (verifications[i].reviewedAt = NoDate) <=> (verifications[i].status = "pending")

\* C12 as claimed: verified and rejected are terminal, and reviewedAt is
\* set once: a record whose status is verified or rejected changes no more,
\* neither its status nor its reviewedAt.
C12_ReviewedIsTerminal ==
    [][\A i \in 1..Len(verifications) :
         verifications[i].status \in {"verified", "rejected"}
         => /\ verifications'[i].status = verifications[i].status
            /\ verifications'[i].reviewedAt = verifications[i].reviewedAt]_vars

\* The paths of a Verification no handler assigns after construction.
ImmutableFields == {"verificationId", "userAddress", "task", "submittedAt"}

\* C12 as amended: records are never removed; a record changes only when
\* the save() of a Review of it completes, which leaves it with a status of
\* the enum (any of the three, from any of the three) and a reviewedAt that
\* is set, and changes none of its immutable paths; a Submit appends a new
\* pending record and changes no existing one.
C12_OnlyReviewChangesRecords ==
    [][/\ Len(verifications') >= Len(verifications)
       /\ \A i \in 1..Len(verifications) :
            verifications'[i] # verifications[i]
            => /\ \E h \in Handlers("review", "save") :
                    h.idx = i /\ ReviewSave(h)
               /\ verifications'[i].status \in StatusEnum
               /\ verifications'[i].reviewedAt # NoDate
               /\ \A f \in ImmutableFields :
                    verifications'[i][f] = verifications[i][f]
       /\ Len(verifications') > Len(verifications)
          => /\ Len(verifications') = Len(verifications) + 1
             /\ \E h \in Handlers("submit", "save") : SubmitSave(h)
             /\ verifications'[Len(verifications')].status = "pending"
             /\ verifications'[Len(verifications')].reviewedAt = NoDate
             /\ \A i \in 1..Len(verifications) :
                  verifications'[i] = verifications[i]]_vars

\* A Review has changed the only record of a user and task to rejected
\* after an earlier Review of it as verified completed the task.
C12_Witness ==
    /\ resp.op = "Review"
    /\ resp.code = 200
    /\ resp.status = "rejected"
    /\ verifications[resp.idx].status = "rejected"
    /\ Cardinality(FindByUserTask(resp.userAddress, resp.task)) = 1
    /\ resp.userAddress \in DOMAIN users
    /\ resp.task \in SchemaTasks
    /\ users[resp.userAddress].tasksCompleted[resp.task] = TRUE

\* C13: TrackRegistration for an address whose User record an earlier
\* Submit created (isActive false) answers success and leaves the User with
\* isActive = true.
C13_RegistrationAfterSubmit ==
    [][\A userAddress \in UserAddresses, referralCode \in ReferralCodes :
         (/\ userAddress \in DOMAIN users
          /\ ~users[userAddress].isActive
          /\ TrackRegistration(userAddress, referralCode))
         => /\ resp'.code = 200
            /\ users'[userAddress].isActive]_vars

C18_FailedSubmitStoresNothing ==
    [][\A h \in BagToSet(inflight) :
         /\ (SubmitSave(h) /\ resp'.code # 0) => UNCHANGED verifications
         /\ (SubmitUpsert(h) /\ resp'.code # 200)
            => \A i \in 1..Len(verifications') :
                 verifications'[i].verificationId # h.doc.verificationId]_vars

\* C14: whenever handleFiles rejects the chosen or dropped file (not an
\* image, or over 5 MiB), the submit button is disabled afterwards.
C14_RejectedFileDisablesSubmit ==
    [][\A file \in ClientFiles :
         (/\ file.present
          /\ Rejects(file)
          /\ handleDrop(file) \/ FileInputChange(file))
         => submitDisabled']_vars

\* C15: a task whose status element shows verified has its button
\* disabled, and a button once disabled is disabled in every later state,
\* whatever the polls and submissions resolving later apply.
C15_VerifiedButtonStaysDisabled ==
    /\ [](\A t \in ElementTasks :
            indicator[t].status = "verified" => btnDisabled[t])
    /\ [][\A t \in ElementTasks : btnDisabled[t] => btnDisabled'[t]]_vars

\* A later response has replaced verified by another status on a task whose
\* button is disabled.
C15_Witness ==
    \E t \in ElementTasks :
        /\ btnDisabled[t]
        /\ indicator[t].status \in {"pending", "rejected"}

\* C16: a response of a request issued before the one whose result a
\* task's status element shows never replaces the status shown.
C16_LaterRequestWins ==
    [][\A t \in ElementTasks :
         indicator'[t].from < indicator[t].from
         => indicator'[t].status = indicator[t].status]_vars

\* C19: whenever the submit button is enabled, the file input holds a file
\* that passed the type and size validation, and it is the previewed file.
C19_EnabledSubmitHoldsPreviewedFile ==
    ~submitDisabled
    => /\ fileInput.present
       /\ ~Rejects(fileInput)
       /\ fileInput = preview

\* C20: when a submission's fetch resolves with success, the status element
\* set to pending is the one of the task sent in that request, and no other
\* task's element changes.
C20_PendingGoesToSubmittedTask ==
    [][\A f \in BagToSet(fetches) :
         (/\ f.kind = "submit"
          /\ f.task \in ElementTasks
          /\ SubmitResolved(f, TRUE))
         => /\ indicator'[f.task] = [status |-> "pending", from |-> f.seq]
            /\ \A t \in ElementTasks \ {f.task} :
                 indicator'[t] = indicator[t]]_vars

====
